---- MODULE Spec2Model ----
(***************************************************************************)
(* A model of the VRChat log viewer (vrchat_log_viewer_modular.pyw):       *)
(* VRChatLogViewer.load_logs / load_log_file / check_for_updates /         *)
(* toggle_auto_update with the re-entrancy that root.update() allows, and  *)
(* VRChatLogViewer.apply_filter with its repeat-collapsing loop.           *)
(***************************************************************************)
EXTENDS Integers, Sequences, FiniteSets, TLC

VARIABLES
    files,             \* the log folder: file name -> sequence of lines on disk
    current_logs,      \* self.current_logs
    notifications,     \* self.notifications
    groups,            \* self.groups, in dict insertion order
    group_names,       \* self.group_names
    last_file_size,    \* self.last_file_size
    current_log_file,  \* self.current_log_file
    auto_update,       \* self.auto_update
    pending,           \* number of scheduled check_for_updates callbacks
    stack,             \* handlers suspended in root.update(), innermost last
    cfg,               \* the filter widgets: search_var, show_debug, collapse_repeated_tags
    log_view,          \* what apply_filter installed in the log view
    stats_count,       \* the first number of stats_label
    status_label,      \* which of STATUS_MESSAGES status_label shows
    group_combo,       \* group_combo: its values and the index current() returns
    msg_search_var,    \* msg_search_var
    current_displayed_messages,  \* self.current_displayed_messages
    export_file,       \* the messages export_messages wrote last
    file_combo,        \* file_combo: the names it displays and the index current() returns
    log_dir,           \* the log files in the folder, as get_sorted_log_files lists them
    group_names_file,  \* the content of GROUP_NAMES_FILE
    truncations,       \* how often a log file was truncated or rotated
    hist               \* history: which file each piece of state was loaded from

vars == <<files, current_logs, notifications, groups, group_names, last_file_size,
          current_log_file, auto_update, pending, stack, cfg, log_view,
          stats_count, status_label, group_combo, msg_search_var,
          current_displayed_messages, export_file, file_combo, log_dir,
          group_names_file, truncations, hist>>

\* the message panel
panel == <<group_combo, msg_search_var, current_displayed_messages, export_file,
          group_names_file>>

\* the file selector and the folder it was filled from
selector == <<file_combo, log_dir>>

(***************************************************************************)
(* Bounds.                                                                 *)
(***************************************************************************)
MaxLines == 2
MaxDepth == 2
MaxPending == 2
MaxTruncations == 1
MaxFilterLen == 4
MaxNotifs == 3
MaxMarkLen == 6

None == "None"

(***************************************************************************)
(* Lines.  A line is named by a string; what the parsers see in it is      *)
(* given by the operators below.                                           *)
(***************************************************************************)
\* what the game writes to the live log: generation g is the text written after the
\* g-th truncation or rotation; the n lines hold a notification
Tape(g) ==
    CASE g = 0 -> <<"x", "n1", "n2", "x2">>
      [] g = 1 -> <<"n3", "y", "n4", "y2">>
      [] OTHER -> <<"z", "n5", "z2", "n6">>

\* the log of an earlier session
OldLog == <<"n7">>

MainLines == {"x", "x2", "y", "y2", "z", "z2", "n1", "n2", "n3", "n4", "n5", "n6", "n7"}
FilterLines == {"netA", "netB", "beh", "msg", "blank", "dbg"}
GroupLines == {"n1", "n2", "n3"}
\* a line whose end the game has not written yet, and the same line once written whole
PartialLines == {"part", "whole"}
Lines == ((MainLines \cup FilterLines) \cup PartialLines) \cup {"exported"}

\* re.search(r'\[([\w\s]+)\]', line): the first bracketed tag, or None
LineTag(l) ==
    CASE l \in {"netA", "netB"} -> "Network"
      [] l = "beh" -> "Behaviour"
      [] OTHER -> None

\* LogParser.parse_log_line(line).content[:100] with digit runs replaced by N
ContentClean(l) ==
    CASE l = "blank" -> ""
      [] l \in {"netA", "netB"} -> "[Network] sent N"
      [] l = "beh" -> "[Behaviour] joined"
      [] OTHER -> l

\* the level LogParser.should_show_log classifies the line as
LineLevel(l) == IF l = "dbg" THEN "debug" ELSE "info"

\* whether the lower-cased line contains the (non-empty) search text
ContainsNeedle(l) == l \notin {"blank", "beh"}

\* st_size: bytes a line takes on disk
LineBytes(l) == IF l \in {"n1", "n2", "n3", "n4", "n5", "n6", "n7", "whole"} THEN 2 ELSE 1

RECURSIVE SizeOf(_)
SizeOf(content) ==
    IF content = <<>> THEN 0
    ELSE LineBytes(Head(content)) + SizeOf(Tail(content))

\* Python truthiness of an optional string
Truthy(s) == s # None /\ s # ""

\* lines[n:]
SliceFrom(lines, n) ==
    IF n >= Len(lines) THEN <<>> ELSE SubSeq(lines, n + 1, Len(lines))

Count(x, s) == Cardinality({i \in 1..Len(s) : s[i] = x})

IsPrefix(s, t) == Len(s) <= Len(t) /\ SubSeq(t, 1, Len(s)) = s

RECURSIVE SeqsUpTo(_, _)
SeqsUpTo(S, n) ==
    IF n = 0 THEN {<<>>}
    ELSE LET shorter == SeqsUpTo(S, n - 1)
         IN  shorter \cup {Append(s, x) : s \in {t \in shorter : Len(t) = n - 1}, x \in S}

(***************************************************************************)
(* apply_filter                                                            *)
(***************************************************************************)
GROUP_COLLAPSE_THRESHOLD == 3

SameMessage == "SameMessage"

\* tag_group_start = None
NoStart == -1

Member(l) == [hdr |-> FALSE, line |-> l, label |-> "", count |-> 0]

\* LogInfo(timestamp="", level="", content="[tag or same-message] count", tags=["group_header"])
Header(tag, count) ==
    [hdr |-> TRUE, line |-> "", label |-> IF Truthy(tag) THEN tag ELSE SameMessage,
     count |-> count]

SearchPass(l, c) == c.search = "" \/ ContainsNeedle(l)

should_show_log(l, c) == LineLevel(l) # "debug" \/ c.show_debug

IsSameGroup(line_tag, content_clean, current_tag, current_message_pattern) ==
    \/ Truthy(line_tag) /\ line_tag = current_tag
    \/ ~Truthy(line_tag) /\ Truthy(current_message_pattern)
         /\ content_clean = current_message_pattern

FilterStart ==
    [filtered_logs |-> <<>>, filtered_count |-> 0, current_tag |-> None,
     current_message_pattern |-> None, tag_group_start |-> NoStart,
     tag_group |-> <<>>, tag_count |-> 0, marks |-> <<>>]

FlushHeaderAfterMembers(st) ==
    IF st.tag_count >= GROUP_COLLAPSE_THRESHOLD
    THEN [st EXCEPT !.filtered_logs =
                        (st.filtered_logs \o st.tag_group)
                            \o <<Header(st.current_tag, st.tag_count)>>]
    ELSE [st EXCEPT !.filtered_logs = st.filtered_logs \o st.tag_group]

FlushDropShortRun(st) ==
    IF st.tag_count >= GROUP_COLLAPSE_THRESHOLD
    THEN [st EXCEPT !.filtered_logs =
                        Append(st.filtered_logs, Header(st.current_tag, st.tag_count))
                            \o st.tag_group]
    ELSE st

\* the run that ends at a signature change
FlushGroup(st) ==
    IF st.tag_count >= GROUP_COLLAPSE_THRESHOLD
    THEN LET withHeader == Append(st.filtered_logs, Header(st.current_tag, st.tag_count))
         IN  [st EXCEPT !.filtered_logs = withHeader \o st.tag_group,
                        !.marks = IF st.tag_group_start # NoStart
                                  THEN Append(st.marks,
                                              <<Len(withHeader) - 1,
                                                Len(withHeader) - 1 + Len(st.tag_group)>>)
                                  ELSE st.marks]
    ELSE IF st.tag_group # <<>>
    THEN [st EXCEPT !.filtered_logs = st.filtered_logs \o st.tag_group]
    ELSE st

JoinRun(st, l) ==
    [st EXCEPT !.tag_group = Append(st.tag_group, Member(l)),
               !.tag_count = st.tag_count + 1]

StartRun(st, l) ==
    LET flushed == FlushGroup(st)
    IN  [flushed EXCEPT !.current_tag = LineTag(l),
                        !.current_message_pattern =
                            IF ~Truthy(LineTag(l)) THEN ContentClean(l) ELSE None,
                        !.tag_group = <<Member(l)>>,
                        !.tag_count = 1,
                        !.tag_group_start = Len(flushed.filtered_logs),
                        !.filtered_count = flushed.filtered_count + 1]

RejectedEndsRun(st, l, c) ==
    LET flushed == FlushGroup(st)
    IN  [flushed EXCEPT !.current_tag = None, !.current_message_pattern = None,
                        !.tag_group = <<>>, !.tag_count = 0]

\* a line the search or level filter rejects: continue
Rejected(st, l, c) == st

PassThroughCollapsing(st, l) ==
    IF st.filtered_logs # <<>> /\ st.filtered_logs[Len(st.filtered_logs)] = Member(l)
    THEN st
    ELSE [st EXCEPT !.filtered_logs = Append(st.filtered_logs, Member(l)),
                    !.filtered_count = st.filtered_count + 1]

\* lines 892-895, collapse_repeated_tags off: filtered_logs.append(log_info)
PassThrough(st, l) ==
    [st EXCEPT !.filtered_logs = Append(st.filtered_logs, Member(l)),
               !.filtered_count = st.filtered_count + 1]

\* one iteration of "for idx, line in enumerate(self.current_logs)"
FilterLoopBody(st, l, c) ==
    IF ~SearchPass(l, c) \/ ~should_show_log(l, c)
    THEN Rejected(st, l, c)
    ELSE IF c.collapse
    THEN IF IsSameGroup(LineTag(l), ContentClean(l), st.current_tag,
                        st.current_message_pattern)
         THEN JoinRun(st, l)
         ELSE StartRun(st, l)
    ELSE PassThrough(st, l)

RECURSIVE FilterLoop(_, _, _)
FilterLoop(st, logs, c) ==
    IF logs = <<>> THEN st
    ELSE FilterLoop(FilterLoopBody(st, Head(logs), c), Tail(logs), c)

FlushLastMarkAsInLoop(st, c) ==
    IF c.collapse /\ st.tag_count >= GROUP_COLLAPSE_THRESHOLD
    THEN LET done == Append(st.filtered_logs, Header(st.current_tag, st.tag_count))
                         \o st.tag_group
         IN  [st EXCEPT !.filtered_logs = done,
                        !.marks = IF st.tag_group_start # NoStart
                                  THEN Append(st.marks,
                                              <<Len(done) - 1,
                                                Len(done) - 1 + Len(st.tag_group)>>)
                                  ELSE st.marks]
    ELSE IF st.tag_group # <<>>
    THEN [st EXCEPT !.filtered_logs = st.filtered_logs \o st.tag_group]
    ELSE st

\* the run that ends at the end of input
FlushLast(st, c) ==
    IF c.collapse /\ st.tag_count >= GROUP_COLLAPSE_THRESHOLD
    THEN LET done == Append(st.filtered_logs, Header(st.current_tag, st.tag_count))
                         \o st.tag_group
         IN  [st EXCEPT !.filtered_logs = done,
                        !.marks = IF st.tag_group_start # NoStart
                                  THEN Append(st.marks,
                                              <<Len(done) - 1 - Len(st.tag_group),
                                                Len(done) - 1>>)
                                  ELSE st.marks]
    ELSE IF st.tag_group # <<>>
    THEN [st EXCEPT !.filtered_logs = st.filtered_logs \o st.tag_group]
    ELSE st

\* the display list, the visible-line count and the group marks apply_filter computes
FilterResult(logs, c) == FlushLast(FilterLoop(FilterStart, logs, c), c)

InstallDisplayAppend(shown_logs, filtered_logs) == shown_logs \o filtered_logs

\* lines 914-920: log_tree.set_logs(filtered_logs), or delete all rows and insert
InstallDisplay(shown_logs, filtered_logs) == filtered_logs

(***************************************************************************)
(* Notifications and groups                                                *)
(***************************************************************************)
IsNotification(l) == l \in {"n1", "n2", "n3", "n4", "n5", "n6", "n7"}

NotifGroup(n) == IF n \in {"n1", "n3", "n5"} THEN "g1" ELSE "g2"

\* NotificationParser.parse_notifications: the notifications of a text, in text order
parse_notifications(text) == SelectSeq(text, IsNotification)

RECURSIVE organize_from(_, _, _)
organize_from(acc, notifs, names) ==
    IF notifs = <<>> THEN acc
    ELSE LET n == Head(notifs)
             g == NotifGroup(n)
             at == {i \in 1..Len(acc) : acc[i].id = g}
         IN  IF at = {}
             THEN organize_from(
                      Append(acc, [id |-> g,
                                   name |-> IF g \in DOMAIN names THEN names[g] ELSE g,
                                   messages |-> <<n>>]),
                      Tail(notifs), names)
             ELSE organize_from(
                      [i \in 1..Len(acc) |->
                          IF i \in at
                          THEN [acc[i] EXCEPT !.messages = Append(@, n)]
                          ELSE acc[i]],
                      Tail(notifs), names)

\* GroupUtils.organize_notifications_by_group: groups in first-seen order
organize_notifications_by_group(notifs, names) == organize_from(<<>>, notifs, names)

(***************************************************************************)
(* The group-name store, GROUP_NAMES_FILE                                  *)
(***************************************************************************)
\* no store file
NoStore == [kind |-> "absent", names |-> <<>>]

\* lines 97-98: the file json.dump(self.group_names, f) writes
StoreOf(names) == [kind |-> "object", names |-> names]

\* what GROUP_NAMES_FILE may hold when the viewer starts: nothing, a file that cannot
\* be opened, text that is not JSON, bytes that are not UTF-8, a JSON list (held as
\* its elements by position), or a JSON object of names
StoreContents ==
    {[kind |-> k, names |-> <<>>] :
        k \in {"absent", "unreadable", "invalid_json", "not_utf8"}}
    \cup {[kind |-> "json_list", names |-> [i \in {"0"} |-> "r1"]]}
    \cup {StoreOf(<<>>), StoreOf([g \in {"g1"} |-> "r1"]), StoreOf([g \in {"g2"} |-> "r2"]),
          StoreOf([g \in {"g1", "g2"} |-> IF g = "g1" THEN "r1" ELSE "r2"])}


\* line 90: except (json.JSONDecodeError, IOError)
CaughtOnRead(kind) == kind \in {"unreadable", "invalid_json"}

\* load_group_names (lines 84-92) on self.group_names = {}: the mapping it leaves in
\* self.group_names, and whether an exception leaves it
load_group_names(store) ==
    IF store.kind = "absent" THEN [raised |-> FALSE, group_names |-> <<>>]
    ELSE IF CaughtOnRead(store.kind) THEN [raised |-> FALSE, group_names |-> <<>>]
    ELSE IF store.kind = "not_utf8" THEN [raised |-> TRUE, group_names |-> <<>>]
    ELSE [raised |-> FALSE, group_names |-> store.names]

SaveOutcomes == {"written", "open_failed", "write_failed"}

\* save_group_names (lines 94-101): the store after the call; IOError from open leaves
\* the file, IOError while writing leaves the truncated file with part of the text
save_group_names(names, store, outcome) ==
    CASE outcome = "written" -> StoreOf(names)
      [] outcome = "open_failed" -> store
      [] OTHER -> [kind |-> "invalid_json", names |-> <<>>]

(***************************************************************************)
(* The message panel: group selector and message list                      *)
(***************************************************************************)
\* NotificationData.date of the notification a line holds
NotifDate(n) ==
    CASE n = "n1" -> 1
      [] n = "n2" -> 2
      [] n = "n3" -> 3
      [] n = "n4" -> 3
      [] n = "n5" -> 5
      [] n = "n6" -> 6
      [] OTHER -> 7

\* whether notif.message.lower() contains the (non-empty) message search text
MessageContainsNeedle(n) == n \in {"n1", "n4", "n7"}

\* the entry "すべてのグループ" of the group selector
AllGroups == [name |-> "AllGroups", count |-> 0, gid |-> None]

\* the text of an entry: f"{group_info['name']} ({msg_count})"
EntryText(e) == <<e.name, e.count>>

InsertBeforeEqual(sorted_front, x) ==
    LET Greater(e) == e.key > x.key
        NotGreater(e) == e.key <= x.key
    IN  (SelectSeq(sorted_front, Greater) \o <<x>>) \o SelectSeq(sorted_front, NotGreater)

\* where sorted(..., reverse=True) puts the last element among the sorted others:
\* behind the elements whose key is not smaller (the sort is stable)
InsertStable(sorted_front, x) ==
    LET NotSmaller(e) == e.key >= x.key
        Smaller(e) == e.key < x.key
    IN  (SelectSeq(sorted_front, NotSmaller) \o <<x>>) \o SelectSeq(sorted_front, Smaller)

\* sorted(pairs, key=..., reverse=True) on [key, val] records
RECURSIVE SortedReverse(_)
SortedReverse(pairs) ==
    IF pairs = <<>> THEN <<>>
    ELSE InsertStable(SortedReverse(SubSeq(pairs, 1, Len(pairs) - 1)), pairs[Len(pairs)])

\* group_combo.get(): the text shown in the selector
ComboGet(combo) ==
    IF combo.current >= 0 /\ combo.current < Len(combo.values)
    THEN EntryText(combo.values[combo.current + 1])
    ELSE <<"", 0>>

\* the smallest index at which values holds an entry of the given text
FirstIndexOf(values, text) ==
    CHOOSE i \in 0..(Len(values) - 1) :
        /\ EntryText(values[i + 1]) = text
        /\ \A j \in 0..(i - 1) : EntryText(values[j + 1]) # text

\* lines 603-613 of update_group_list: the new values of the selector
GroupList(grps) ==
    LET sorted_groups ==
            SortedReverse([i \in 1..Len(grps) |->
                              [key |-> Len(grps[i].messages), val |-> grps[i]]])
    IN  <<AllGroups>> \o
            [i \in 1..Len(grps) |->
                [name |-> sorted_groups[i].val.name, count |-> sorted_groups[i].key,
                 gid |-> sorted_groups[i].val.id]]

\* update_group_list: the selector afterwards
update_group_list(grps, combo) ==
    LET group_list == GroupList(grps)
        current_selection == ComboGet(combo)
    IN  IF \E i \in 1..Len(group_list) : EntryText(group_list[i]) = current_selection
        THEN [values |-> group_list,
              current |-> IF /\ combo.current < Len(group_list)
                             /\ EntryText(group_list[combo.current + 1]) = current_selection
                          THEN combo.current
                          ELSE FirstIndexOf(group_list, current_selection)]
        ELSE [values |-> group_list, current |-> 0]

GroupAtSortedPosition(grps, combo) ==
    LET gid == combo.values[combo.current + 1].gid
        at == CHOOSE i \in 1..Len(grps) : grps[i].id = gid
    IN  IF \E i \in 1..Len(grps) : grps[i].id = gid THEN at ELSE 0

\* list(self.groups.keys())[group_index] with group_index = group_combo.current() - 1:
\* the position in self.groups of the group the handlers take, 0 if there is none
GroupAtIndex(grps, combo) ==
    LET group_index == combo.current - 1
    IN  IF 0 <= group_index /\ group_index < Len(grps) THEN group_index + 1 ELSE 0

\* the messages update_message_list, filter_messages and export_messages select
SelectedMessages(combo, grps, notifs) ==
    LET selected_group == ComboGet(combo)
    IN  IF selected_group = EntryText(AllGroups) \/ selected_group = <<"", 0>>
        THEN notifs
        ELSE IF GroupAtIndex(grps, combo) # 0
        THEN grps[GroupAtIndex(grps, combo)].messages
        ELSE <<>>

\* line 682: sorted(messages, key=lambda x: x.date, reverse=True)
MessagesByDate(messages) ==
    LET sorted_messages ==
            SortedReverse([i \in 1..Len(messages) |->
                              [key |-> NotifDate(messages[i]), val |-> messages[i]]])
    IN  [i \in 1..Len(messages) |-> sorted_messages[i].val]

\* update_message_list: the new self.current_displayed_messages
update_message_list(combo, grps, notifs) ==
    MessagesByDate(SelectedMessages(combo, grps, notifs))

\* filter_messages: the new self.current_displayed_messages
filter_messages(search_text, combo, grps, notifs) ==
    IF search_text = "" THEN update_message_list(combo, grps, notifs)
    ELSE SelectSeq(SelectedMessages(combo, grps, notifs), MessageContainsNeedle)

(***************************************************************************)
(* The log folder                                                          *)
(***************************************************************************)
FileIds == {"A", "B"}

\* the file the game is writing; B is the log of an earlier session
LiveFiles == {"A"}

\* FileUtils.get_sorted_log_files(self.log_path) when the viewer starts
log_files == <<"A", "B">>

\* file_combo before load_logs has filled it: current() is -1
EmptyCombo == [values |-> <<>>, current |-> -1]

\* lines 438-439: file_combo['values'] = file_list; file_combo.current(0)
FilledCombo(listing) == [values |-> listing, current |-> 0]

\* log_file.stat().st_size
StatSize(f) == SizeOf(files[f])

\* FileUtils.read_file_with_encoding(log_file).splitlines(keepends=True)
ReadLines(f) == files[f]

(***************************************************************************)
(* Handlers suspended in root.update()                                     *)
(***************************************************************************)
Frame(op, f, pc, shrunk) ==
    [op |-> op, log_file |-> f, pc |-> pc, file_size |-> 0, lines |-> <<>>,
     stale |-> FALSE, shrunk |-> shrunk, caller |-> "handler",
     replaces |-> FALSE]

Top == stack[Len(stack)]

Pop(stk) == SubSeq(stk, 1, Len(stk) - 1)

ReplaceTop(stk, fr) == [stk EXCEPT ![Len(stk)] = fr]

\* history: a full load starts while the frames of stk are suspended
Interrupted(stk, fullLoad) ==
    [i \in 1..Len(stk) |-> [stk[i] EXCEPT !.stale = @ \/ fullLoad]]

CanStart == Len(stack) < MaxDepth

DefaultCfg == [search |-> "", show_debug |-> TRUE, collapse |-> TRUE]

\* history: logs_of / notifs_of, the file current_logs / notifications were loaded
\* from; clean, a full load ran alone and the file only grew since; n_app, append
\* loads that added lines since; shown, apply_filter ran on current_logs; parsed, the
\* text last handed to parse_notifications in append mode; last_op, whether the last
\* load failed or replaced other content or the last check found the size unchanged
\* or a group was renamed ("none" otherwise); tick, flips when check_for_updates is
\* entered; propagated, an exception left load_logs or load_log_file; renamed, the
\* name edit_group_name gave last to each group it renamed; session, what the user
\* does in this run of the viewer, where a specification restricts it
NoHist == [logs_of |-> None, notifs_of |-> None,
           clean |-> FALSE, n_app |-> 0, shown |-> FALSE, parsed |-> <<>>,
           last_op |-> "none", tick |-> FALSE, propagated |-> FALSE,
           renamed |-> <<>>, session |-> "any"]

(***************************************************************************)
(* load_log_file                                                           *)
(***************************************************************************)
AppendLogsReplace(logs, lines) == SliceFrom(lines, Len(logs))

\* lines 503-504: new_lines = lines[len(self.current_logs):]; extend
AppendLogs(logs, lines) == logs \o SliceFrom(lines, Len(logs))

NewContentWholeFile(lines, logs_after) == lines

\* line 511, append mode: '\n'.join(lines[len(self.current_logs):]), taken after
\* self.current_logs was extended
NewContentAppend(lines, logs_after) == SliceFrom(lines, Len(logs_after))

InstallLogsKeepOld(logs, lines) == logs \o lines

\* line 501: self.current_logs = lines
InstallLogs(logs, lines) == lines

\* load_log_file(log_file, append=False) up to its first root.update() (line 469)
BeginLoad(f, stk) ==
    /\ current_log_file' = f
    /\ stack' = Append(Interrupted(stk, TRUE), Frame("load", f, "u469", FALSE))
    /\ status_label' = "loading"
    /\ hist' = [hist EXCEPT !.clean = FALSE]

\* load_log_file(log_file, append=True): no root.update() on this path
AppendLoad(f) ==
    LET lines == ReadLines(f)
        logs == AppendLogs(current_logs, lines)
        new_notifications == parse_notifications(NewContentAppend(lines, logs))
        notifs == notifications \o new_notifications
    IN  /\ current_log_file' = f
        /\ last_file_size' = StatSize(f)
        /\ current_logs' = logs
        /\ notifications' = notifs
        /\ groups' = organize_notifications_by_group(notifs, group_names)
        /\ group_combo' = update_group_list(groups', group_combo)
        /\ hist' = [hist EXCEPT
               !.logs_of = IF logs = current_logs \/ hist.logs_of = f
                           THEN @ ELSE "mixed",
               !.notifs_of = IF new_notifications = <<>> \/ hist.notifs_of = f
                             THEN @ ELSE "mixed",
               !.n_app = IF logs # current_logs /\ @ < 2 THEN @ + 1 ELSE @,
               !.shown = @ /\ logs = current_logs,
               !.parsed = NewContentAppend(lines, logs),
               !.last_op = "none"]

\* the handlers that start a full load ---------------------------------------

\* on_file_selected after the user picked entry i of file_combo: the folder is listed
\* again (line 344) and the file at the picked index of that listing is loaded
OnFileSelected ==
    /\ CanStart
    /\ \E i \in 1..Len(file_combo.values) :
           /\ file_combo' = [file_combo EXCEPT !.current = i - 1]
           /\ IF i - 1 < Len(log_dir)
              THEN BeginLoad(log_dir[i], stack)
              ELSE UNCHANGED <<current_log_file, stack, status_label, hist>>
    /\ UNCHANGED <<log_dir, panel, truncations, files, current_logs, notifications, groups, group_names,
                   last_file_size, auto_update, pending, cfg, log_view, stats_count>>

\* refresh_messages
RefreshMessages ==
    /\ CanStart
    /\ current_log_file # None
    /\ BeginLoad(current_log_file, stack)
    /\ UNCHANGED <<selector, panel, truncations, files, current_logs, notifications, groups, group_names,
                   last_file_size, auto_update, pending, cfg, log_view, stats_count>>

\* load_logs up to its root.update() (line 421)
LoadLogs ==
    /\ CanStart
    /\ status_label' = "searching"
    /\ stack' = Append(Interrupted(stack, TRUE), Frame("load_logs", None, "u421", FALSE))
    /\ UNCHANGED <<selector, panel, truncations, files, current_logs, notifications, groups, group_names,
                   last_file_size, current_log_file, auto_update, pending, cfg,
                   log_view, stats_count, hist>>

\* load_logs from line 423: load_log_file(log_files[0])
ResumeLoadLogs ==
    /\ stack # <<>> /\ Top.op = "load_logs"
    /\ IF log_dir = <<>>
       THEN /\ status_label' = "no_files"
            /\ stack' = Pop(stack)
            /\ UNCHANGED <<file_combo, current_log_file, hist>>
       ELSE /\ file_combo' = FilledCombo(log_dir)
            /\ current_log_file' = log_dir[1]
            /\ status_label' = "loading"
            /\ stack' = ReplaceTop(stack, [Top EXCEPT !.op = "load", !.log_file = log_dir[1],
                                                      !.pc = "u469", !.caller = "load_logs"])
            /\ hist' = [hist EXCEPT !.clean = FALSE]
    /\ UNCHANGED <<log_dir, panel, truncations, files, current_logs, notifications, groups, group_names,
                   last_file_size, auto_update, pending, cfg, log_view, stats_count>>

\* the full load, from one root.update() to the next -----------------------

\* lines 471-488: stat
LoadStat ==
    /\ stack # <<>> /\ Top.op = "load" /\ Top.pc = "u469"
    /\ status_label' = "reading"
    /\ stack' = ReplaceTop(stack, [Top EXCEPT !.file_size = StatSize(Top.log_file),
                                              !.pc = "u488"])
    /\ hist' = [hist EXCEPT !.clean = FALSE]
    /\ UNCHANGED <<selector, panel, truncations, files, current_logs, notifications, groups, group_names,
                   last_file_size, current_log_file, auto_update, pending, cfg,
                   log_view, stats_count>>

\* lines 491-495: read
LoadRead ==
    /\ stack # <<>> /\ Top.op = "load" /\ Top.pc = "u488"
    /\ status_label' = "parsing"
    /\ stack' = ReplaceTop(stack, [Top EXCEPT !.lines = ReadLines(Top.log_file),
                                              !.pc = "u495"])
    /\ hist' = [hist EXCEPT !.clean = FALSE]
    /\ UNCHANGED <<selector, panel, truncations, files, current_logs, notifications, groups, group_names,
                   last_file_size, current_log_file, auto_update, pending, cfg,
                   log_view, stats_count>>

\* lines 497-508: install the lines
LoadInstallLines ==
    /\ stack # <<>> /\ Top.op = "load" /\ Top.pc = "u495"
    /\ status_label' = "extracting"
    /\ last_file_size' = Top.file_size
    /\ current_logs' = InstallLogs(current_logs, Top.lines)
    /\ stack' = ReplaceTop(stack, [Top EXCEPT
                       !.pc = "u508",
                       !.replaces = /\ current_logs # <<>>
                                    /\ Top.lines # <<>>
                                    /\ \A i \in 1..Len(current_logs) :
                                           Count(current_logs[i], Top.lines) = 0])
    /\ hist' = [hist EXCEPT !.logs_of = Top.log_file, !.clean = FALSE, !.n_app = 0,
                            !.shown = FALSE]
    /\ UNCHANGED <<selector, panel, truncations, files, notifications, groups, group_names, current_log_file,
                   auto_update, pending, cfg, log_view, stats_count>>

\* lines 511-527: install the notifications and the groups
LoadInstallNotifications ==
    /\ stack # <<>> /\ Top.op = "load" /\ Top.pc = "u508"
    /\ status_label' = "displaying"
    /\ notifications' = parse_notifications(Top.lines)
    /\ groups' = organize_notifications_by_group(notifications', group_names)
    /\ stack' = ReplaceTop(stack, [Top EXCEPT !.pc = "u527"])
    /\ hist' = [hist EXCEPT !.notifs_of = Top.log_file, !.clean = FALSE,
                            !.parsed = <<>>]
    /\ UNCHANGED <<selector, panel, truncations, files, current_logs, group_names, last_file_size, current_log_file,
                   auto_update, pending, cfg, log_view, stats_count>>

\* lines 528-541: apply_filter, update_group_list, update_message_list, return
LoadDisplay ==
    /\ stack # <<>> /\ Top.op = "load" /\ Top.pc = "u527"
    /\ LET r == FilterResult(current_logs, cfg)
       IN  /\ log_view' = InstallDisplay(log_view, r.filtered_logs)
           /\ stats_count' = r.filtered_count
    /\ group_combo' = update_group_list(groups, group_combo)
    /\ current_displayed_messages' =
           update_message_list(group_combo', groups, notifications)
    /\ status_label' = IF Top.caller = "load_logs" THEN "detected" ELSE "completed"
    /\ stack' = Pop(stack)
    /\ hist' = [hist EXCEPT !.clean = /\ hist.logs_of = Top.log_file
                                       /\ hist.notifs_of = Top.log_file
                                       /\ current_log_file = Top.log_file
                                       /\ current_logs = Top.lines
                                       /\ notifications = parse_notifications(Top.lines)
                                       /\ IsPrefix(Top.lines, files[Top.log_file]),
                            !.shown = TRUE,
                            !.last_op = IF Top.replaces THEN "full_replaced"
                                        ELSE IF hist.last_op = "renamed"
                                             THEN "reloaded_renamed"
                                        ELSE "none"]
    /\ UNCHANGED <<selector, msg_search_var, export_file, group_names_file, truncations, files, current_logs, notifications, groups, group_names,
                   last_file_size, current_log_file, auto_update, pending, cfg>>

\* failures ------------------------------------------------------------------

InTryBlockReadOnly(op, pc) == op = "load" /\ pc = "u488"

\* whether the statements a call runs after the root.update() it is suspended in lie
\* in its try block: lines 462-541 of load_log_file (an append-mode call, made at
\* line 584, runs them all), lines 411-445 of load_logs
InTryBlock(op, pc) ==
    CASE op = "load" -> pc \in {"u469", "u488", "u495", "u508", "u527"}
      [] op = "check" -> pc = "u582"
      [] op = "load_logs" -> pc = "u421"
      [] OTHER -> FALSE

\* a statement of a full load raises (stat, read, decode, extraction, grouping,
\* display): lines 543-552, then the return to the caller
LoadFails ==
    /\ stack # <<>> /\ Top.op = "load"
    /\ stack' = Pop(stack)
    /\ status_label' = IF ~InTryBlock(Top.op, Top.pc) THEN status_label
                       ELSE IF Top.caller = "load_logs" THEN "detected"
                       ELSE "error"
    /\ hist' = [hist EXCEPT !.clean = FALSE, !.last_op = "full_failed",
                            !.propagated = @ \/ ~InTryBlock(Top.op, Top.pc)]
    /\ UNCHANGED <<selector, panel, truncations, files, current_logs, notifications, groups,
                   group_names, last_file_size, current_log_file, auto_update, pending,
                   cfg, log_view, stats_count>>

\* LARGE_FILE_THRESHOLD_MB, in the unit of LineBytes
LARGE_FILE_THRESHOLD == 2

\* line 475: file_size_mb > LARGE_FILE_THRESHOLD_MB
IsLargeFile(file_size) == file_size > LARGE_FILE_THRESHOLD

\* lines 471-482: the file is large and the user answers no to the warning
LoadDeclined ==
    /\ stack # <<>> /\ Top.op = "load" /\ Top.pc = "u469"
    /\ IsLargeFile(StatSize(Top.log_file))
    /\ stack' = Pop(stack)
    /\ status_label' = "cancelled"
    /\ hist' = [hist EXCEPT !.clean = FALSE, !.last_op = "none"]
    /\ UNCHANGED <<selector, panel, truncations, files, current_logs, notifications, groups,
                   group_names, last_file_size, current_log_file, auto_update, pending,
                   cfg, log_view, stats_count>>

\* load_logs from line 423 when get_sorted_log_files or stat raises: lines 447-456
LoadLogsFails ==
    /\ stack # <<>> /\ Top.op = "load_logs"
    /\ stack' = Pop(stack)
    /\ status_label' = IF InTryBlock(Top.op, Top.pc) THEN "error" ELSE status_label
    /\ hist' = [hist EXCEPT !.last_op = "logs_failed",
                            !.propagated = @ \/ ~InTryBlock(Top.op, Top.pc)]
    /\ UNCHANGED <<selector, panel, truncations, files, current_logs, notifications, groups,
                   group_names, last_file_size, current_log_file, auto_update, pending,
                   cfg, log_view, stats_count>>

\* load_logs when the log folder does not exist (lines 412-418)
LoadLogsNoFolder ==
    /\ CanStart
    /\ status_label' = "no_folder"
    /\ stack' = Interrupted(stack, FALSE)
    /\ UNCHANGED <<selector, hist, panel, truncations, files, current_logs, notifications, groups,
                   group_names, last_file_size, current_log_file, auto_update, pending,
                   cfg, log_view, stats_count>>

(***************************************************************************)
(* Auto update                                                             *)
(***************************************************************************)
ChecksSuspended == Cardinality({i \in 1..Len(stack) : stack[i].op = "check"})

\* line 584: self.load_log_file(self.current_log_file, append=True)
LoadOnSizeChange(f) == AppendLoad(f)

SizeChangedOrNot(current_size, last_size) == TRUE

\* line 580: current_size != self.last_file_size
SizeChanged(current_size, last_size) == current_size # last_size

RescheduleNever(au, pend) == pend

\* lines 595-596: if self.auto_update: self.root.after(AUTO_UPDATE_INTERVAL, ...)
Reschedule(au, pend) == IF au THEN pend + 1 ELSE pend

RescheduleInsideTry(au, pend) == pend

\* lines 593-596: the except clause falls through to the re-scheduling
RescheduleAfterRaise(au, pend) == Reschedule(au, pend)

\* check_for_updates from line 570 up to root.update() (line 582) or to its end;
\* au is self.auto_update, pend the callbacks scheduled when it is entered
CheckForUpdates(au, pend) ==
    /\ hist' = [hist EXCEPT
           !.tick = ~@,
           !.last_op = IF /\ au /\ current_log_file # None
                          /\ ~SizeChanged(StatSize(current_log_file), last_file_size)
                       THEN "same_size" ELSE @]
    /\ IF ~au
       THEN /\ pending' = pend
            /\ stack' = Interrupted(stack, FALSE)
       ELSE IF /\ current_log_file # None
               /\ SizeChanged(StatSize(current_log_file), last_file_size)
       THEN /\ pending' = pend
            /\ stack' = Append(Interrupted(stack, FALSE),
                               [Frame("check", current_log_file, "u582",
                                      StatSize(current_log_file) < last_file_size)
                                  EXCEPT !.file_size = StatSize(current_log_file)])
       ELSE /\ pending' = Reschedule(au, pend)
            /\ stack' = Interrupted(stack, FALSE)

\* check_for_updates from line 584: the load, then re-scheduling (lines 595-596)
ResumeCheck ==
    /\ stack # <<>> /\ Top.op = "check"
    /\ LoadOnSizeChange(current_log_file)
    /\ pending' = Reschedule(auto_update, pending)
    /\ stack' = Pop(stack)
    /\ status_label' = "updated"
    /\ UNCHANGED <<selector, msg_search_var, current_displayed_messages, export_file,
                   group_names_file, truncations, files, group_names, auto_update, cfg,
                   log_view, stats_count>>

\* check_for_updates from line 584 when stat or the read raises in load_log_file:
\* its except clause (lines 543-552) reports the error, check_for_updates goes on
ResumeCheckLoadFails ==
    /\ stack # <<>> /\ Top.op = "check"
    /\ pending' = RescheduleAfterRaise(auto_update, pending)
    /\ stack' = Pop(stack)
    /\ status_label' = IF InTryBlock(Top.op, Top.pc) THEN "updated" ELSE status_label
    /\ hist' = [hist EXCEPT !.last_op = "append_failed", !.parsed = <<>>,
                            !.propagated = @ \/ ~InTryBlock(Top.op, Top.pc)]
    /\ UNCHANGED <<selector, panel, truncations, files, current_logs, notifications, groups,
                   group_names, last_file_size, current_log_file, auto_update, cfg,
                   log_view, stats_count>>

\* the callback scheduled by root.after(AUTO_UPDATE_INTERVAL, ...) fires
TimerFires ==
    /\ CanStart
    /\ pending > 0
    /\ CheckForUpdates(auto_update, pending - 1)
    /\ UNCHANGED <<selector, status_label, panel, truncations, files, current_logs, notifications, groups, group_names,
                   last_file_size, current_log_file, auto_update, cfg, log_view,
                   stats_count>>

\* toggle_auto_update with the check box switched on
ToggleAutoUpdateOn ==
    /\ CanStart
    /\ ~auto_update
    /\ pending + ChecksSuspended < MaxPending
    /\ auto_update' = TRUE
    /\ CheckForUpdates(TRUE, pending)
    /\ UNCHANGED <<selector, status_label, panel, truncations, files, current_logs, notifications, groups, group_names,
                   last_file_size, current_log_file, cfg, log_view, stats_count>>

\* toggle_auto_update with the check box switched off
ToggleAutoUpdateOff ==
    /\ auto_update
    /\ auto_update' = FALSE
    /\ stack' = Interrupted(stack, FALSE)
    /\ UNCHANGED <<selector, status_label, panel, truncations, files, current_logs, notifications, groups, group_names,
                   last_file_size, current_log_file, pending, cfg, log_view,
                   stats_count, hist>>

(***************************************************************************)
(* The environment: the game writes the log files                          *)
(***************************************************************************)
AppendLine ==
    \E f \in LiveFiles :
        /\ Len(files[f]) < MaxLines
        /\ files' = [files EXCEPT ![f] = Append(@, Tape(truncations)[Len(@) + 1])]
        /\ UNCHANGED <<selector, status_label, panel, truncations, current_logs, notifications, groups, group_names,
                       last_file_size, current_log_file, auto_update, pending, stack,
                       cfg, log_view, stats_count, hist>>

\* the last line of every live file ends with a line break
NoHalfLine ==
    \A f \in LiveFiles :
        IF files[f] = <<>> THEN TRUE ELSE files[f][Len(files[f])] # "part"

\* the game writes the first part of a line and flushes
WriteHalfLine ==
    \E f \in LiveFiles :
        /\ Len(files[f]) < MaxLines
        /\ NoHalfLine
        /\ files' = [files EXCEPT ![f] = Append(@, "part")]
        /\ UNCHANGED <<selector, status_label, panel, truncations, current_logs, notifications,
                       groups, group_names, last_file_size, current_log_file,
                       auto_update, pending, stack, cfg, log_view, stats_count, hist>>

\* the game writes the rest of the line it began
CompleteLine ==
    \E f \in LiveFiles :
        /\ ~NoHalfLine
        /\ files' = [files EXCEPT ![f] = [@ EXCEPT ![Len(@)] = "whole"]]
        /\ UNCHANGED <<selector, status_label, panel, truncations, current_logs, notifications,
                       groups, group_names, last_file_size, current_log_file,
                       auto_update, pending, stack, cfg, log_view, stats_count, hist>>

\* truncation or rotation: the file restarts with less content
Truncate ==
    \E f \in LiveFiles, c \in {<<>>, SubSeq(Tape(truncations + 1), 1, 1)} :
        /\ truncations < MaxTruncations
        /\ truncations' = truncations + 1
        /\ SizeOf(c) < SizeOf(files[f])
        /\ files' = [files EXCEPT ![f] = c]
        /\ hist' = [hist EXCEPT !.clean = @ /\ f # current_log_file]
        /\ UNCHANGED <<selector, status_label, panel, current_logs, notifications, groups,
                       group_names, last_file_size, current_log_file, auto_update,
                       pending, stack, cfg, log_view, stats_count>>

(***************************************************************************)
(* The viewer                                                              *)
(***************************************************************************)
\* __init__ (lines 46-80): either load_logs found no folder or no file and returned,
\* or it is in its root.update()
StartWith(listing) ==
    /\ \E n \in 0..1 :
           files = [f \in FileIds |-> IF f \in LiveFiles THEN SubSeq(Tape(0), 1, n)
                                      ELSE OldLog]
    /\ current_logs = <<>>
    /\ notifications = <<>>
    /\ groups = <<>>
    /\ group_names = <<>>
    /\ last_file_size = 0
    /\ current_log_file = None
    /\ auto_update = FALSE
    /\ pending = 0
    /\ stack \in {<<>>, <<Frame("load_logs", None, "u421", FALSE)>>}
    /\ status_label = IF stack = <<>> THEN "no_files" ELSE "searching"
    /\ cfg = DefaultCfg
    /\ log_view = <<>>
    /\ stats_count = 0
    /\ truncations = 0
    /\ group_combo = [values |-> <<AllGroups>>, current |-> 0]
    /\ msg_search_var = ""
    /\ current_displayed_messages = <<>>
    /\ export_file = None
    /\ file_combo = EmptyCombo
    /\ log_dir = listing
    /\ group_names_file = NoStore
    /\ hist = NoHist

Init == StartWith(log_files)

Next ==
    \/ OnFileSelected
    \/ RefreshMessages
    \/ LoadLogs
    \/ ResumeLoadLogs
    \/ LoadStat
    \/ LoadRead
    \/ LoadInstallLines
    \/ LoadInstallNotifications
    \/ LoadDisplay
    \/ TimerFires
    \/ ResumeCheck
    \/ ToggleAutoUpdateOn
    \/ ToggleAutoUpdateOff
    \/ AppendLine

\* every handler, re-entrant through root.update(), on log files that only grow
Spec == Init /\ [][Next]_vars

Idle == stack = <<>>

TailNext ==
    \/ Idle /\ OnFileSelected
    \/ Idle /\ RefreshMessages
    \/ Idle /\ LoadLogs
    \/ ResumeLoadLogs
    \/ LoadStat
    \/ LoadRead
    \/ LoadInstallLines
    \/ LoadInstallNotifications
    \/ LoadDisplay
    \/ Idle /\ TimerFires
    \/ ResumeCheck
    \/ Idle /\ ToggleAutoUpdateOn
    \/ Idle /\ ToggleAutoUpdateOff
    \/ AppendLine
    \/ Truncate

\* one handler at a time, on log files that grow and are truncated or rotated
TailSpec == Init /\ [][TailNext]_vars

PartialNext ==
    \/ Idle /\ RefreshMessages
    \/ Idle /\ LoadLogs
    \/ ResumeLoadLogs
    \/ LoadStat
    \/ LoadRead
    \/ LoadInstallLines
    \/ LoadInstallNotifications
    \/ LoadDisplay
    \/ Idle /\ TimerFires
    \/ ResumeCheck
    \/ Idle /\ ToggleAutoUpdateOn
    \/ Idle /\ ToggleAutoUpdateOff
    \/ NoHalfLine /\ AppendLine
    \/ WriteHalfLine
    \/ CompleteLine

\* one handler at a time, on a log file the game appends to line by line or in parts
\* of lines
PartialSpec == Init /\ [][PartialNext]_vars

\* the files of a listing
ListedFiles(listing) == {listing[i] : i \in 1..Len(listing)}

\* the game starts a new log file: it is the newest, get_sorted_log_files lists it first
CreateLogFile ==
    \E f \in FileIds \ ListedFiles(log_dir) :
        /\ log_dir' = <<f>> \o log_dir
        /\ UNCHANGED <<file_combo, panel, status_label, truncations, files, current_logs,
                       notifications, groups, group_names, last_file_size,
                       current_log_file, auto_update, pending, stack, cfg, log_view,
                       stats_count, hist>>

\* a log file the viewer neither displays nor loads is removed from the folder
RemoveLogFile ==
    \E f \in ListedFiles(log_dir) :
        /\ f # current_log_file
        /\ \A k \in 1..Len(stack) : stack[k].log_file # f
        /\ log_dir' = SelectSeq(log_dir, LAMBDA g : g # f)
        /\ UNCHANGED <<file_combo, panel, status_label, truncations, files, current_logs,
                       notifications, groups, group_names, last_file_size,
                       current_log_file, auto_update, pending, stack, cfg, log_view,
                       stats_count, hist>>

\* the listings of the folder when the viewer starts
StartListings == {<<"A", "B">>, <<"B">>, <<"A">>}

SelectInit == \E listing \in StartListings : StartWith(listing)

SelectNext ==
    \/ Idle /\ OnFileSelected
    \/ Idle /\ RefreshMessages
    \/ Idle /\ LoadLogs
    \/ ResumeLoadLogs
    \/ LoadStat
    \/ LoadRead
    \/ LoadInstallLines
    \/ LoadInstallNotifications
    \/ LoadDisplay
    \/ CreateLogFile
    \/ RemoveLogFile
    \/ AppendLine

\* one handler at a time, in a folder where log files are created and removed
SelectSpec == SelectInit /\ [][SelectNext]_vars

PollNext ==
    \/ Idle /\ RefreshMessages
    \/ Idle /\ LoadLogs
    \/ ResumeLoadLogs
    \/ LoadStat
    \/ LoadRead
    \/ LoadInstallLines
    \/ LoadInstallNotifications
    \/ LoadDisplay
    \/ Idle /\ TimerFires
    \/ ResumeCheck
    \/ ResumeCheckLoadFails
    \/ Idle /\ ToggleAutoUpdateOn
    \/ Idle /\ ToggleAutoUpdateOff
    \/ AppendLine

\* a handler that is running goes on to its end
HandlerStep ==
    \/ ResumeLoadLogs
    \/ LoadStat
    \/ LoadRead
    \/ LoadInstallLines
    \/ LoadInstallNotifications
    \/ LoadDisplay
    \/ ResumeCheck
    \/ ResumeCheckLoadFails

\* Tk runs a callback scheduled with root.after once its delay has passed and the
\* event loop is reached, and a handler in root.update() goes on when the pending
\* events are done
PollFairness ==
    /\ SF_vars(Idle /\ TimerFires)
    /\ WF_vars(HandlerStep)

\* one handler at a time, on a log file that only grows, where the load of a tail
\* read may raise; timers fire and handlers end
PollSpec == Init /\ [][PollNext]_vars /\ PollFairness

FailNext ==
    \/ Idle /\ OnFileSelected
    \/ Idle /\ RefreshMessages
    \/ Idle /\ LoadLogs
    \/ Idle /\ LoadLogsNoFolder
    \/ ResumeLoadLogs
    \/ LoadLogsFails
    \/ LoadStat
    \/ LoadRead
    \/ LoadInstallLines
    \/ LoadInstallNotifications
    \/ LoadDisplay
    \/ LoadFails
    \/ LoadDeclined
    \/ Idle /\ TimerFires
    \/ ResumeCheck
    \/ ResumeCheckLoadFails
    \/ Idle /\ ToggleAutoUpdateOn
    \/ Idle /\ ToggleAutoUpdateOff
    \/ AppendLine

\* one handler at a time, on log files that only grow, where any statement of
\* load_logs and load_log_file may raise
FailSpec == Init /\ [][FailNext]_vars

(***************************************************************************)
(* apply_filter as the handler of the filter widgets                       *)
(***************************************************************************)
\* apply_filter: rebuild the display list from self.current_logs and install it
ApplyFilterWith(c) ==
    LET r == FilterResult(current_logs, c)
    IN  /\ cfg' = c
        /\ log_view' = InstallDisplay(log_view, r.filtered_logs)
        /\ stats_count' = r.filtered_count
        /\ hist' = [hist EXCEPT !.shown = TRUE]
        /\ UNCHANGED <<selector, status_label, panel, truncations, files, current_logs, notifications, groups,
                       group_names, last_file_size, current_log_file, auto_update,
                       pending, stack>>

\* a filter check box whose state the loop does not read (collapse_long_lines)
ApplyFilter == ApplyFilterWith(cfg)

\* on_search_changed
SetSearch == \E t \in {"", "needle"} : t # cfg.search /\ ApplyFilterWith([cfg EXCEPT !.search = t])

ToggleShowDebug == ApplyFilterWith([cfg EXCEPT !.show_debug = ~@])

ToggleCollapse == ApplyFilterWith([cfg EXCEPT !.collapse = ~@])

\* the viewer after load_log_file has loaded and displayed a file of some lines,
\* no handler running
FilterInit ==
    /\ \E logs \in SeqsUpTo(FilterLines, MaxFilterLen) :
           /\ files = [f \in FileIds |-> IF f \in LiveFiles THEN logs ELSE OldLog]
           /\ current_logs = logs
           /\ last_file_size = SizeOf(logs)
           /\ notifications = parse_notifications(logs)
           /\ groups = organize_notifications_by_group(notifications, <<>>)
           /\ log_view = FilterResult(logs, DefaultCfg).filtered_logs
           /\ stats_count = FilterResult(logs, DefaultCfg).filtered_count
    /\ group_names = <<>>
    /\ current_log_file = log_files[1]
    /\ auto_update = FALSE
    /\ pending = 0
    /\ stack = <<>>
    /\ status_label = "completed"
    /\ cfg = DefaultCfg
    /\ truncations = 0
    /\ group_combo = [values |-> <<AllGroups>>, current |-> 0]
    /\ msg_search_var = ""
    /\ current_displayed_messages = <<>>
    /\ export_file = None
    /\ file_combo = FilledCombo(log_files)
    /\ log_dir = log_files
    /\ group_names_file = NoStore
    /\ hist = [NoHist EXCEPT !.logs_of = log_files[1], !.notifs_of = log_files[1],
                             !.clean = TRUE, !.shown = TRUE]

FilterNext ==
    \/ ApplyFilter
    \/ SetSearch
    \/ ToggleShowDebug
    \/ ToggleCollapse

FilterSpec == FilterInit /\ [][FilterNext]_vars

MarkLines == {"netA", "beh", "msg", "dbg"}

\* the viewer after load_log_file has loaded and displayed a file long enough for two
\* collapsed runs
MarkInit ==
    /\ \E logs \in SeqsUpTo(MarkLines, MaxMarkLen) :
           /\ files = [f \in FileIds |-> IF f \in LiveFiles THEN logs ELSE OldLog]
           /\ current_logs = logs
           /\ last_file_size = SizeOf(logs)
           /\ notifications = parse_notifications(logs)
           /\ groups = organize_notifications_by_group(notifications, <<>>)
           /\ log_view = FilterResult(logs, DefaultCfg).filtered_logs
           /\ stats_count = FilterResult(logs, DefaultCfg).filtered_count
    /\ group_names = <<>>
    /\ current_log_file = log_files[1]
    /\ auto_update = FALSE
    /\ pending = 0
    /\ stack = <<>>
    /\ status_label = "completed"
    /\ cfg = DefaultCfg
    /\ truncations = 0
    /\ group_combo = [values |-> <<AllGroups>>, current |-> 0]
    /\ msg_search_var = ""
    /\ current_displayed_messages = <<>>
    /\ export_file = None
    /\ file_combo = FilledCombo(log_files)
    /\ log_dir = log_files
    /\ group_names_file = NoStore
    /\ hist = [NoHist EXCEPT !.logs_of = log_files[1], !.notifs_of = log_files[1],
                             !.clean = TRUE, !.shown = TRUE]

\* apply_filter on logs with several collapsed runs
MarkSpec == MarkInit /\ [][FilterNext]_vars

(***************************************************************************)
(* The handlers of the message panel                                       *)
(***************************************************************************)
\* on_group_selected: the user picks entry i of the group selector
OnGroupSelected ==
    \E i \in 0..(Len(group_combo.values) - 1) :
        /\ group_combo' = [group_combo EXCEPT !.current = i]
        /\ current_displayed_messages' =
               update_message_list(group_combo', groups, notifications)
        /\ UNCHANGED <<selector, status_label, msg_search_var, export_file, group_names_file,
                       truncations, files, current_logs, notifications, groups,
                       group_names, last_file_size, current_log_file, auto_update,
                       pending, stack, cfg, log_view, stats_count, hist>>

\* filter_messages: the user changes the message search text
FilterMessages ==
    \E t \in {"", "needle"} :
        /\ t # msg_search_var
        /\ msg_search_var' = t
        /\ current_displayed_messages' =
               filter_messages(t, group_combo, groups, notifications)
        /\ UNCHANGED <<selector, status_label, group_combo, export_file, group_names_file,
                       truncations, files, current_logs, notifications, groups,
                       group_names, last_file_size, current_log_file, auto_update,
                       pending, stack, cfg, log_view, stats_count, hist>>

SetGroupNameNowhere(names, group_id, new_name) == names

\* line 652: self.group_names[group_id] = new_name
SetGroupName(names, group_id, new_name) ==
    [g \in DOMAIN names \cup {group_id} |-> IF g = group_id THEN new_name ELSE names[g]]

\* line 653: self.groups[group_id]['name'] = new_name
RenameGroup(grps, at, new_name) == [grps EXCEPT ![at].name = new_name]

RenameAcceptedAny(new_name, current_name) == TRUE

\* line 651: if new_name and new_name != current_name
RenameAccepted(new_name, current_name) == Truthy(new_name) /\ new_name # current_name

\* edit_group_name with the answer new_name of the dialog (None when cancelled) and
\* the outcome of writing the store
EditGroupNameWith(new_name, outcome) ==
    LET selection == ComboGet(group_combo)
        at == GroupAtIndex(groups, group_combo)
    IN  /\ selection # EntryText(AllGroups) /\ selection # <<"", 0>>
        /\ at # 0
        /\ IF RenameAccepted(new_name, groups[at].name)
           THEN /\ group_names' = SetGroupName(group_names, groups[at].id, new_name)
                /\ groups' = RenameGroup(groups, at, new_name)
                /\ group_names_file' =
                       save_group_names(group_names', group_names_file, outcome)
                /\ group_combo' = update_group_list(groups', group_combo)
                /\ hist' = [hist EXCEPT
                       !.last_op = "renamed",
                       !.renamed = [g \in DOMAIN @ \cup {groups[at].id} |->
                                       IF g = groups[at].id THEN new_name ELSE @[g]]]
           ELSE UNCHANGED <<selector, group_names, groups, group_names_file, group_combo, hist>>
        /\ UNCHANGED <<selector, status_label, msg_search_var, current_displayed_messages,
                       export_file, truncations, files, current_logs, notifications,
                       last_file_size, current_log_file, auto_update, pending,
                       stack, cfg, log_view, stats_count>>

\* edit_group_name with a name typed into the dialog, the store written
EditGroupName == \E new_name \in {"r1", "r2"} : EditGroupNameWith(new_name, "written")

\* edit_group_name with any answer of the dialog and any outcome of the write
EditGroupNameAny ==
    \E new_name \in {None, "", "r1", "r2"}, outcome \in SaveOutcomes :
        EditGroupNameWith(new_name, outcome)

\* ExportUtils.export_to_text / export_to_json: the lines written for the messages
ExportText(messages) == [i \in 1..Len(messages) |-> "exported"]

\* export_messages with the path chosen in the save dialog: target is a log file of
\* the folder, or None for any other path
ExportMessagesTo(target) ==
    /\ notifications # <<>>
    /\ IF target = None
       THEN /\ export_file' = SelectedMessages(group_combo, groups, notifications)
            /\ files' = files
       ELSE /\ export_file' = export_file
            /\ files' = [files EXCEPT ![target] =
                             ExportText(SelectedMessages(group_combo, groups,
                                                         notifications))]
    /\ UNCHANGED <<selector, status_label, group_combo, msg_search_var,
                   current_displayed_messages, group_names_file, truncations,
                   current_logs, notifications, groups, group_names, last_file_size,
                   current_log_file, auto_update, pending, stack, cfg, log_view,
                   stats_count, hist>>

\* export_messages with a new file chosen in the dialog
ExportMessages == ExportMessagesTo(None)

\* export_messages with any path chosen in the dialog
ExportMessagesAnywhere == \E target \in {None} \cup FileIds : ExportMessagesTo(target)

\* the viewer after load_logs has loaded and displayed a file of notifications,
\* no handler running
GroupInit ==
    /\ \E logs \in SeqsUpTo(GroupLines, MaxNotifs) :
           /\ files = [f \in FileIds |-> IF f \in LiveFiles THEN logs ELSE OldLog]
           /\ current_logs = logs
           /\ last_file_size = SizeOf(logs)
           /\ notifications = parse_notifications(logs)
           /\ groups = organize_notifications_by_group(notifications, <<>>)
           /\ log_view = FilterResult(logs, DefaultCfg).filtered_logs
           /\ stats_count = FilterResult(logs, DefaultCfg).filtered_count
           /\ group_combo =
                  update_group_list(groups, [values |-> <<AllGroups>>, current |-> 0])
           /\ current_displayed_messages =
                  update_message_list(group_combo, groups, notifications)
    /\ group_names = <<>>
    /\ group_names_file = NoStore
    /\ current_log_file = log_files[1]
    /\ auto_update = FALSE
    /\ pending = 0
    /\ stack = <<>>
    /\ status_label = "detected"
    /\ cfg = DefaultCfg
    /\ truncations = 0
    /\ msg_search_var = ""
    /\ export_file = None
    /\ file_combo = FilledCombo(log_files)
    /\ log_dir = log_files
    /\ hist = [NoHist EXCEPT !.logs_of = log_files[1], !.notifs_of = log_files[1],
                             !.clean = TRUE, !.shown = TRUE]

GroupNext ==
    \/ Idle /\ OnGroupSelected
    \/ Idle /\ FilterMessages
    \/ Idle /\ EditGroupName
    \/ Idle /\ ExportMessages
    \/ Idle /\ RefreshMessages
    \/ LoadStat
    \/ LoadRead
    \/ LoadInstallLines
    \/ LoadInstallNotifications
    \/ LoadDisplay

\* the message panel on a loaded file, with reloads of that file
GroupSpec == GroupInit /\ [][GroupNext]_vars

RenameNext ==
    \/ Idle /\ OnGroupSelected
    \/ Idle /\ EditGroupName
    \/ Idle /\ RefreshMessages
    \/ LoadStat
    \/ LoadRead
    \/ LoadInstallLines
    \/ LoadInstallNotifications
    \/ LoadDisplay
    \/ Idle /\ ToggleAutoUpdateOn
    \/ Idle /\ ToggleAutoUpdateOff
    \/ Idle /\ TimerFires
    \/ ResumeCheck
    \/ AppendLine

\* renaming groups on a loaded file, with reloads and tail reads of that file
RenameSpec == GroupInit /\ [][RenameNext]_vars

(***************************************************************************)
(* The viewer from its construction, with the group-name store             *)
(***************************************************************************)
\* the live log at the start: a notification of the group the game writes to next,
\* or one of the other group
StoreLogs == {<<"n3">>, <<"n2">>}

\* __init__ before load_group_names (line 70): self.group_names = {}, some store on
\* disk, a live log of some notifications
StoreInit ==
    /\ \E logs \in StoreLogs :
           files = [f \in FileIds |-> IF f \in LiveFiles THEN logs ELSE OldLog]
    /\ group_names_file \in StoreContents
    /\ current_logs = <<>>
    /\ notifications = <<>>
    /\ groups = <<>>
    /\ group_names = <<>>
    /\ last_file_size = 0
    /\ current_log_file = None
    /\ auto_update = FALSE
    /\ pending = 0
    /\ stack = <<Frame("init", None, "u70", FALSE)>>
    /\ status_label = "none"
    /\ cfg = DefaultCfg
    /\ log_view = <<>>
    /\ stats_count = 0
    /\ truncations = 0
    /\ group_combo = [values |-> <<AllGroups>>, current |-> 0]
    /\ msg_search_var = ""
    /\ current_displayed_messages = <<>>
    /\ export_file = None
    /\ file_combo = EmptyCombo
    /\ log_dir = log_files
    /\ \E session \in {"tail", "panel"} : hist = [NoHist EXCEPT !.session = session]

\* the user of this run works with auto update
TailSession == hist.session = "tail"

\* the user of this run works with the message search, the log filter and the export
PanelSession == hist.session = "panel"

\* __init__ lines 70-80: load_group_names, then setup_ui and load_logs up to its
\* root.update(); an exception of load_group_names ends the start, and so does (here)
\* a store that gave no mapping
LoadGroupNames ==
    /\ stack # <<>> /\ Top.op = "init" /\ Top.pc = "u70"
    /\ LET r == load_group_names(group_names_file)
       IN  /\ group_names' = r.group_names
           /\ hist' = [hist EXCEPT !.propagated = r.raised]
           /\ IF r.raised \/ group_names_file.kind = "json_list"
              THEN /\ stack' = <<[Top EXCEPT !.pc = "ended"]>>
                   /\ status_label' = status_label
              ELSE /\ stack' = <<Frame("load_logs", None, "u421", FALSE)>>
                   /\ status_label' = "searching"
    /\ UNCHANGED <<selector, panel, truncations, files, current_logs, notifications, groups,
                   last_file_size, current_log_file, auto_update, pending, cfg,
                   log_view, stats_count>>

StoreNext ==
    \/ LoadGroupNames
    \/ ResumeLoadLogs
    \/ LoadStat
    \/ LoadRead
    \/ LoadInstallLines
    \/ LoadInstallNotifications
    \/ LoadDisplay
    \/ Idle /\ RefreshMessages
    \/ Idle /\ OnGroupSelected
    \/ Idle /\ EditGroupNameAny
    \/ PanelSession /\ Idle /\ FilterMessages
    \/ PanelSession /\ Idle /\ ExportMessages
    \/ PanelSession /\ Idle /\ ApplyFilter
    \/ TailSession /\ Idle /\ ToggleAutoUpdateOn
    \/ TailSession /\ Idle /\ ToggleAutoUpdateOff
    \/ TailSession /\ Idle /\ TimerFires
    \/ ResumeCheck
    \/ AppendLine

\* the viewer from its start: store, loads, tail reads, filters, selection, renames
\* and exports, one handler at a time; a run uses either auto update or the message
\* search, log filter and export
StoreSpec == StoreInit /\ [][StoreNext]_vars

ExportNext ==
    \/ Idle /\ OnGroupSelected
    \/ Idle /\ ExportMessagesAnywhere
    \/ Idle /\ RefreshMessages
    \/ LoadStat
    \/ LoadRead
    \/ LoadInstallLines
    \/ LoadInstallNotifications
    \/ LoadDisplay
    \/ AppendLine

\* exports to any path, with reloads, on a loaded file the game appends to
ExportSpec == GroupInit /\ [][ExportNext]_vars

(***************************************************************************)
(* Properties of the display list                                          *)
(***************************************************************************)
Passes(l, c) == SearchPass(l, c) /\ should_show_log(l, c)

\* the lines of logs that pass the search and level filters, in file order
FilteredStream(logs, c) ==
    LET Test(l) == Passes(l, c)
    IN  SelectSeq(logs, Test)

\* the signature of a record: its bracketed tag, or its digit-normalized content key
Signature(l) ==
    IF Truthy(LineTag(l)) THEN <<"tag", LineTag(l)>> ELSE <<"key", ContentClean(l)>>

HeaderCovers(h, l) ==
    IF h.label = SameMessage THEN ~Truthy(LineTag(l)) ELSE LineTag(l) = h.label

IsHeader(e) == e.hdr

IsMember(e) == ~e.hdr

PassAll(c) == [c EXCEPT !.search = "", !.show_debug = TRUE]

\* C4: with repeat-collapsing on, every group header of the installed display list is
\* immediately followed by exactly as many non-header records as its count says, these
\* all have the header's signature, the record after them is not one more of the same
\* signature, and no header lies among them.
C4_HeaderCountsMembers ==
    (hist.shown /\ cfg.collapse) =>
        \A i \in 1..Len(log_view) :
            log_view[i].hdr =>
                LET n == log_view[i].count
                IN  /\ n >= 1
                    /\ i + n <= Len(log_view)
                    /\ \A j \in (i + 1)..(i + n) :
                           /\ ~log_view[j].hdr
                           /\ HeaderCovers(log_view[i], log_view[j].line)
                           /\ Signature(log_view[j].line) = Signature(log_view[i + 1].line)
                    /\ (i + n + 1 <= Len(log_view) /\ ~log_view[i + n + 1].hdr) =>
                           Signature(log_view[i + n + 1].line)
                               # Signature(log_view[i + 1].line)

\* a collapsed run of three records with a fourth record of another signature beside it
C4_Witness ==
    /\ hist.shown /\ cfg.collapse
    /\ Len(log_view) = 5
    /\ \E i \in 1..2 : log_view[i].hdr /\ log_view[i].count = 3

\* the number of leading records of s that have the signature of its first record
RECURSIVE RunLength(_, _)
RunLength(s, sig) ==
    IF s = <<>> \/ Signature(Head(s)) # sig THEN 0
    ELSE 1 + RunLength(Tail(s), sig)

\* what collapsing is to produce: every maximal run of same-signature records, with a
\* header before it when it is GROUP_COLLAPSE_THRESHOLD records or longer
RECURSIVE CollapsedRuns(_)
CollapsedRuns(s) ==
    IF s = <<>> THEN <<>>
    ELSE LET n == RunLength(s, Signature(Head(s)))
             members == [i \in 1..n |-> Member(s[i])]
         IN  (IF n >= GROUP_COLLAPSE_THRESHOLD
              THEN <<Header(LineTag(Head(s)), n)>> \o members
              ELSE members)
                 \o CollapsedRuns(SliceFrom(s, n))

\* C5: every maximal run of n consecutive same-signature records of the filtered
\* stream, the last one included, is emitted with exactly one header before it when
\* n >= GROUP_COLLAPSE_THRESHOLD and with none when n is smaller, all n members kept.
C5_EveryRunCollapsed ==
    (hist.shown /\ cfg.collapse) =>
        log_view = CollapsedRuns(FilteredStream(current_logs, cfg))

\* C6: two adjacent records of the filtered stream with the same signature are put in
\* the same run, whatever the signature: when the loop reaches the second one it
\* takes the is_same_group branch.
C6_SameSignatureSameRun ==
    (hist.shown /\ cfg.collapse) =>
        \A m \in 2..Len(current_logs) :
            \A p \in 1..(m - 1) :
                (/\ Passes(current_logs[m], cfg)
                 /\ Passes(current_logs[p], cfg)
                 /\ \A q \in (p + 1)..(m - 1) : ~Passes(current_logs[q], cfg)
                 /\ Signature(current_logs[p]) = Signature(current_logs[m]))
                => LET st == FilterLoop(FilterStart, SubSeq(current_logs, 1, m - 1), cfg)
                   IN  IsSameGroup(LineTag(current_logs[m]), ContentClean(current_logs[m]),
                                   st.current_tag, st.current_message_pattern)

\* C7: the display list is what collapsing gives on the filtered stream alone: a line
\* the search or level filter rejects is not in the list, is not counted by a header
\* and ends no run.
C7_FilterBeforeCollapse ==
    hist.shown =>
        /\ log_view = FilterResult(FilteredStream(current_logs, cfg), PassAll(cfg)).filtered_logs
        /\ \A i \in 1..Len(log_view) : ~log_view[i].hdr => Passes(log_view[i].line, cfg)

\* two Network records, a rejected debug line between them, a third Network record:
\* one run of three under one header
C7_Witness ==
    /\ hist.shown /\ cfg.collapse /\ ~cfg.show_debug
    /\ current_logs = <<"netA", "dbg", "netB", "netA">>
    /\ log_view = <<Header("Network", 3), Member("netA"), Member("netB"), Member("netA")>>

\* C8: the display list without its group headers is the sequence of the records of
\* the lines that pass the filters, in file order, for every log and filter setting.
C8_MembersAreFilteredStream ==
    hist.shown =>
        LET members == SelectSeq(log_view, IsMember)
            stream == FilteredStream(current_logs, cfg)
        IN  members = [i \in 1..Len(stream) |-> Member(stream[i])]

\* a list with a header, built from a log of which a line was rejected and in which a
\* short run precedes the collapsed one
C8_Witness ==
    /\ hist.shown /\ cfg.collapse
    /\ Len(FilteredStream(current_logs, cfg)) < Len(current_logs)
    /\ Len(log_view) = Len(FilteredStream(current_logs, cfg)) + 1
    /\ \E i \in 1..Len(log_view) : log_view[i].hdr

(***************************************************************************)
(* Properties of loading and tailing                                       *)
(***************************************************************************)
\* the step in which check_for_updates performs the load its size comparison asked for
AppendStep == stack # <<>> /\ Top.op = "check" /\ stack' = Pop(stack)

\* the step in which a full load that was overtaken by a later full load returns
StaleLoadReturns ==
    stack # <<>> /\ Top.op = "load" /\ Top.stale /\ Top.pc = "u527" /\ stack' = Pop(stack)

\* C1: when a load_log_file that was suspended in root.update() while another handler
\* started and completed a full load returns, the lines, notifications and groups held
\* are those of the file of the newer request, which is current_log_file: the result
\* of the overtaken load is discarded.
C1_StaleResultDiscarded ==
    [][StaleLoadReturns =>
           (hist'.logs_of = current_log_file' /\ hist'.notifs_of = current_log_file')]_vars

\* C2: an append-mode load of a file that only grew since it was loaded appends
\* exactly the notifications of the newly appended lines to self.notifications, in
\* file order, after those already held, and self.groups is rebuilt with them.
C2_AppendedNotificationsInstalled ==
    [][(AppendStep /\ hist.clean) =>
           LET appended == SliceFrom(ReadLines(current_log_file), Len(current_logs))
           IN  /\ notifications' = notifications \o parse_notifications(appended)
               /\ groups' = organize_notifications_by_group(notifications', group_names)]_vars

\* C3: when check_for_updates saw a size smaller than last_file_size, the load it
\* triggers leaves exactly the file's current content in current_logs, notifications
\* and groups.
C3_TruncationFullReload ==
    [][(AppendStep /\ Top.shrunk) =>
           LET content == ReadLines(current_log_file')
           IN  /\ current_logs' = content
               /\ notifications' = parse_notifications(content)
               /\ groups' = organize_notifications_by_group(notifications', group_names)]_vars

\* C9: an append-mode load never shortens current_logs and leaves the lines already
\* held where they are: what it adds comes after everything added before.
C9_AppendLoadsOnlyExtend ==
    [][AppendStep => IsPrefix(current_logs, current_logs')]_vars

\* two append-mode loads in a row have each added lines to a fully loaded file
C9_Witness == hist.clean /\ hist.n_app = 2 /\ stack = <<>>

\* the text an append-mode load hands to parse_notifications is lines[k:] of the
\* file for some k at or after the number of lines current_logs held before the
\* call (lines[k:] is empty when the file has no more than k lines)
HandsOverOnlyUnseenLines ==
    AppendStep =>
        LET lines == ReadLines(current_log_file)
        IN  \E k \in Len(current_logs)..(Len(current_logs) + Len(lines)) :
                hist'.parsed = SliceFrom(lines, k)

NoNotificationTwice ==
    hist.clean =>
        \A n \in MainLines :
            Count(n, notifications)
                <= Count(n, parse_notifications(ReadLines(current_log_file)))

FullLoadReturns ==
    /\ stack # <<>> /\ Top.op = "load" /\ Top.pc = "u527" /\ stack' = Pop(stack)
    /\ status_label' \in {"completed", "detected"}

SnapshotConsistent ==
    /\ notifications = parse_notifications(current_logs)
    /\ groups = organize_notifications_by_group(notifications, group_names)

\* a full load runs from one root.update() to the next, or to its return
FullLoadStep == stack # <<>> /\ Top.op = "load" /\ stack' # stack

\* C12: at every root.update() inside a full load, and after it returns, current_logs,
\* notifications and groups derive from one and the same file snapshot: no stretch
\* of the load between two such points takes them from one snapshot to a mix of two.
C12_OneSnapshotAtEveryUpdate ==
    [][(FullLoadStep /\ SnapshotConsistent) => SnapshotConsistent']_vars

AppendLoadFailsStep ==
    /\ stack # <<>> /\ Top.op = "check" /\ stack' = Pop(stack)
    /\ hist'.last_op = "append_failed"

\* C13: when the read fails in the append-mode load that check_for_updates started,
\* current_logs, notifications, groups and the installed display list are unchanged
\* and, with auto update still on, the next check_for_updates is scheduled.
C13_FailedTailReadKeepsState ==
    [][AppendLoadFailsStep =>
           /\ UNCHANGED <<selector, current_logs, notifications, groups, log_view>>
           /\ auto_update => pending' = pending + 1]_vars

\* a tail read of a file that grew has failed, the next check is scheduled
C13_Witness ==
    /\ stack = <<>> /\ hist.last_op = "append_failed"
    /\ auto_update /\ pending > 0
    /\ current_logs # <<>>
    /\ StatSize(current_log_file) # last_file_size

\* a statement of load_logs or load_log_file raises and the call ends
RaiseStep ==
    /\ stack # <<>> /\ stack' = Pop(stack)
    /\ hist'.last_op \in {"full_failed", "append_failed", "logs_failed"}

CheckEntered == hist'.tick # hist.tick

\* C15: a check_for_updates that finds the size of the current file equal to
\* last_file_size starts no read and leaves current_logs, notifications, groups,
\* last_file_size and the display list as they are.
C15_SameSizeNoOp ==
    [][(/\ CheckEntered /\ auto_update'
        /\ current_log_file # None
        /\ StatSize(current_log_file) = last_file_size) =>
           /\ stack' = stack
           /\ UNCHANGED <<selector, current_logs, notifications, groups, last_file_size, log_view,
                          group_combo>>]_vars

\* a check has found the size of a loaded, non-empty file unchanged
C15_Witness ==
    /\ stack = <<>> /\ hist.last_op = "same_size" /\ auto_update
    /\ current_logs # <<>>
    /\ StatSize(current_log_file) = last_file_size

\* C16: a tail read happens only while auto_update is true, and a timer callback that
\* fires after auto update was switched off returns without starting a read and
\* without re-scheduling itself.
C16_NoTailReadWhenOff ==
    /\ [][(stack # <<>> /\ Top.op = "check" /\ stack' = Pop(stack)) => auto_update]_vars
    /\ [][(CheckEntered /\ ~auto_update') =>
             /\ pending' = pending - 1
             /\ stack' = stack
             /\ UNCHANGED <<selector, current_logs, notifications, groups, last_file_size>>]_vars

\* C17: for every entry i >= 1 of the group selector, the group that
\* update_message_list, filter_messages, export_messages and edit_group_name take
\* when entry i is selected is the group that entry i was made from, whose name and
\* message count it shows.
C17_SelectorEntryIsGroupUsed ==
    stack = <<>> =>
        \A i \in 1..(Len(group_combo.values) - 1) :
            LET combo == [group_combo EXCEPT !.current = i]
            IN  /\ GroupAtIndex(groups, combo) # 0
                /\ GroupAtIndex(groups, combo) = GroupAtSortedPosition(groups, combo)

PositionOf(gid) == CHOOSE i \in 1..Len(groups) : groups[i].id = gid

\* C18: after update_group_list the entries behind the "all groups" entry are the
\* groups of self.groups ordered by message count, largest first, groups of equal
\* count in their first-seen order.
C18_SelectorSortedByCount ==
    stack = <<>> =>
        LET values == group_combo.values
        IN  /\ Len(values) = Len(groups) + 1
            /\ values[1] = AllGroups
            /\ \A i \in 2..Len(values) :
                   /\ \E k \in 1..Len(groups) : groups[k].id = values[i].gid
                   /\ values[i].name = groups[PositionOf(values[i].gid)].name
                   /\ values[i].count = Len(groups[PositionOf(values[i].gid)].messages)
            /\ \A i \in 2..Len(values) : \A j \in (i + 1)..Len(values) :
                   \/ values[i].count > values[j].count
                   \/ /\ values[i].count = values[j].count
                      /\ PositionOf(values[i].gid) < PositionOf(values[j].gid)

\* two groups of equal count are listed, after a rename has rebuilt the list
C18_Witness ==
    /\ stack = <<>> /\ hist.last_op = "renamed"
    /\ Len(groups) = 2
    /\ Len(groups[1].messages) = Len(groups[2].messages)
    /\ Len(group_combo.values) = 3

RECURSIVE IsSubsequence(_, _)
IsSubsequence(s, t) ==
    IF s = <<>> THEN TRUE
    ELSE IF t = <<>> THEN FALSE
    ELSE IF Head(s) = Head(t) THEN IsSubsequence(Tail(s), Tail(t))
    ELSE IsSubsequence(s, Tail(t))

\* C19: the messages presented for a group selection, current_displayed_messages
\* after update_message_list or filter_messages, are in file order: they follow one
\* another as in self.notifications, whatever their dates.
C19_MessagesInFileOrder ==
    stack = <<>> => IsSubsequence(current_displayed_messages, notifications)

\* C20: once edit_group_name has renamed a group, the group carries the new name in
\* self.groups from then on, also after every rebuild of the groups, and a rename or
\* a rebuild from the same notifications leaves every group's messages as they were.
C20_RenameSurvivesRebuild ==
    /\ [](\A i \in 1..Len(groups) :
              groups[i].id \in DOMAIN hist.renamed =>
                  groups[i].name = hist.renamed[groups[i].id])
    /\ [][(groups' # groups /\ notifications' = notifications) =>
             /\ Len(groups') = Len(groups)
             /\ \A i \in 1..Len(groups) :
                    /\ groups'[i].id = groups[i].id
                    /\ groups'[i].messages = groups[i].messages]_vars

\* a renamed group of two messages after a reload of the file
C20_Witness ==
    /\ stack = <<>> /\ hist.last_op = "reloaded_renamed"
    /\ \E i \in 1..Len(groups) :
           /\ groups[i].id \in DOMAIN hist.renamed
           /\ groups[i].name = hist.renamed[groups[i].id]
           /\ Len(groups[i].messages) = 2

\* C24: with repeat-collapsing switched off, the display list apply_filter installs
\* is exactly the records of the lines that pass the filters, in file order, and holds
\* no group header, whatever the run lengths.
C24_CollapseOffPassThrough ==
    ~cfg.collapse =>
        /\ log_view = [i \in 1..Len(FilteredStream(current_logs, cfg)) |->
                          Member(FilteredStream(current_logs, cfg)[i])]
        /\ \A i \in 1..Len(log_view) : ~IsHeader(log_view[i])
        /\ stats_count = Len(log_view)

\* a run of three lines of one tag is displayed uncollapsed
C24_Witness ==
    /\ ~cfg.collapse
    /\ Len(log_view) >= GROUP_COLLAPSE_THRESHOLD
    /\ \A i \in 1..GROUP_COLLAPSE_THRESHOLD : log_view[i] = Member("netA")

LoadReturns ==
    /\ stack # <<>> /\ stack' = Pop(stack)
    /\ Top.op \in {"load", "check"}
    /\ hist'.last_op \notin {"full_failed", "append_failed"}

\* C29: after every load_log_file that returns successfully, full or append, the
\* display list in the log view is what apply_filter computes from the resulting
\* current_logs and the present filter settings.
C29_DisplayFollowsLoad ==
    [][LoadReturns =>
          log_view' = FilterResult(current_logs', cfg').filtered_logs]_vars

\* C30: at any time at most one check_for_updates timer callback is pending.
C30_OnePendingCallback == pending <= 1

\* C27: whenever no load is in progress, current_logs and last_file_size describe the
\* file named by current_log_file (lines and a size the file, which only grows, has
\* had): a load that is abandoned or that fails leaves current_log_file as it was, so
\* that a tail read never appends lines of one file to lines of another.
C27_LogsOfCurrentFile ==
    stack = <<>> =>
        IF current_log_file = None
        THEN current_logs = <<>> /\ last_file_size = 0
        ELSE /\ IsPrefix(current_logs, files[current_log_file])
             /\ last_file_size <= StatSize(current_log_file)

\* C28: after an append-mode load, when only appends were made to the file since the
\* full load, current_logs equals the line sequence of the content just read, also
\* when an earlier read ended in the middle of a line that a later append completed.
C28_TailReadGivesFileLines ==
    [][(/\ stack # <<>> /\ Top.op = "check" /\ stack' = Pop(stack)
        /\ hist.clean /\ hist.logs_of = current_log_file) =>
          current_logs' = ReadLines(current_log_file)]_vars

\* the viewer is constructed: __init__ has passed load_group_names
AfterStart == IF stack = <<>> THEN TRUE ELSE Top.op # "init"

\* every group present before and after the step shows the same name
NamesKept ==
    \A i \in 1..Len(groups), j \in 1..Len(groups') :
        groups[i].id = groups'[j].id => groups'[j].name = groups[i].name

\* the step is an edit_group_name call that gives group g a non-empty name different
\* from the one it showed, and touches no other name
AcceptedRename(g) ==
    /\ hist'.last_op = "renamed"
    /\ DOMAIN group_names' = DOMAIN group_names \cup {g}
    /\ \A h \in DOMAIN group_names : h # g => group_names'[h] = group_names[h]
    /\ Truthy(group_names'[g])
    /\ \E i \in 1..Len(groups) :
           /\ groups[i].id = g
           /\ group_names'[g] # groups[i].name
           /\ groups' = [groups EXCEPT ![i].name = group_names'[g]]

C22_StoreHoldsAllNames ==
    [][(AfterStart /\ group_names' # group_names) =>
          group_names_file' = StoreOf(group_names')]_vars

\* C23: load_group_names never fails, and leaves an empty mapping in group_names
\* whenever the store is absent, unreadable or anything but a JSON object.
C23_LoadGroupNamesNeverFails ==
    [][(stack # <<>> /\ Top.op = "init" /\ stack' # stack) =>
          /\ ~hist'.propagated
          /\ group_names_file.kind # "object" => group_names' = <<>>]_vars

\* C26: no operation of the viewer changes or deletes content of a source log file:
\* whatever a step does, every log file keeps the lines it had (the game may append).
C26_LogFilesReadOnly ==
    [][\A f \in FileIds : IsPrefix(files[f], files'[f])]_vars


\* C32: the visible-line count apply_filter reports (the first number of the
\* statistics label) is the number of lines of current_logs that pass the search and
\* level filters, with repeat-collapsing on and with it off.
C32_CountIsFilteredLines ==
    hist.shown => stats_count = Len(FilteredStream(current_logs, cfg))


\* the ranges apply_filter passes to log_tree.mark_as_group, in call order
GroupMarks == FilterResult(current_logs, cfg).marks

\* C34: both calls of mark_as_group in apply_filter, the one for a run ended by a
\* signature change and the one for the run ending at the end of input, pass a range
\* whose start is the index of the run's header in the final display list and whose
\* end is the index of the run's last member, so end - start is the run length; every
\* header of the list has its range.
C34_MarksSpanRuns ==
    hist.shown =>
        /\ \A k \in 1..Len(GroupMarks) :
               LET start == GroupMarks[k][1]
                   end == GroupMarks[k][2]
               IN  /\ start >= 0 /\ end + 1 <= Len(log_view)
                   /\ log_view[start + 1].hdr
                   /\ end - start = log_view[start + 1].count
                   /\ \A j \in (start + 2)..(end + 1) : ~log_view[j].hdr
                   /\ (end + 2 <= Len(log_view) /\ ~log_view[end + 2].hdr) =>
                          Signature(log_view[end + 2].line)
                              # Signature(log_view[end + 1].line)
        /\ {GroupMarks[k][1] + 1 : k \in 1..Len(GroupMarks)}
               = {i \in 1..Len(log_view) : log_view[i].hdr}

\* a run ended by a signature change and a run ending at the end of input, both
\* collapsed, after apply_filter ran from a filter widget
C34_Witness ==
    /\ hist.shown /\ cfg.collapse /\ ~cfg.show_debug
    /\ Len(GroupMarks) = 2
    /\ GroupMarks[1] = <<0, 3>>
    /\ GroupMarks[2][2] = Len(log_view) - 1


\* the current log file holds more bytes than the viewer last read
FileGrew ==
    /\ current_log_file # None
    /\ StatSize(current_log_file) > last_file_size

\* check_for_updates has seen the changed size and is at its call of
\* load_log_file(append=True)
TailReadUnderWay == stack # <<>> /\ Top.op = "check"

\* C31: while auto update is enabled the polling does not die: when no check is
\* running one is scheduled, also after a check that found no file, found the size
\* unchanged or whose load raised; so when the file has grown, a check comes to its
\* tail read (unless auto update is switched off or a reload has read the file
\* before).
C31_PollingNeverDies ==
    /\ []((auto_update /\ Idle) => pending >= 1)
    /\ (auto_update /\ FileGrew) ~> (TailReadUnderWay \/ ~auto_update \/ ~FileGrew)

\* polling alive after a tail read that raised, with file content still unread
C31_Witness ==
    /\ auto_update /\ Idle /\ pending >= 1
    /\ hist.last_op = "append_failed"
    /\ FileGrew


\* C33: on_file_selected loads the file whose name the file selector displays at the
\* selected entry, also when log files were created or removed in the folder after
\* load_logs filled the selector.
C33_LoadsDisplayedFile ==
    [][(Idle /\ OnFileSelected) =>
           /\ stack' # <<>>
           /\ current_log_file' = file_combo'.values[file_combo'.current + 1]]_vars

====
